---- MODULE Spec2Model ----
(***************************************************************************)
(* Round-robin league manager (src/app/page.tsx, LeagueApp).               *)
(*                                                                         *)
(* State: the React state of the component (isLoaded, phase, title, mode,  *)
(* allowDraw, showOrder, players, matches), the number of ids generated so *)
(* far and the snapshot held by localStorage.  Derived values (getMatchAB,         *)
(* isConfirmed,                                                            *)
(* calculateStats, roundSchedule, matchOrderMap) are operators of the      *)
(* state, as the component recomputes them on every render.                *)
(*                                                                         *)
(* Encodings.                                                              *)
(*  - A score is number | null.  Numbers are kept in half units so that    *)
(*    0.5 is an integer: 0 -> 0, 0.5 -> 1, 1 -> 2, n -> 2n.  null is NULL. *)
(*  - An id is the sequence of its "-"-separated segments, so that the     *)
(*    key `${p1}-${p2}` is the concatenation p1 \o p2 and k.split("-") is  *)
(*    the key itself.  crypto.randomUUID() ids have five segments.         *)
(*  - matches is a function whose DOMAIN is the set of keys present.       *)
(***************************************************************************)
EXTENDS Integers, Sequences, FiniteSets, TLC

VARIABLES isLoaded, phase, title, mode, allowDraw, showOrder, players, matches,
          nextId, storage

vars == <<isLoaded, phase, title, mode, allowDraw, showOrder, players, matches,
          nextId, storage>>

(***************************************************************************)
(* Bounds of the model.                                                    *)
(***************************************************************************)
\* UUIDs generated by addPlayer in one run of the UI specification.
MaxIds == 2
\* Largest whole score typed into a score field.
MaxScore == 1
\* Entries the UI specification lets the result map grow to.
MaxEntries == 1
\* Largest whole score in the stored four-participant leagues.
MaxLeagueScore == 2
\* Largest whole score in the stored three-participant chains.
MaxChainScore == 3
\* Roster size of the stored rosters the schedule is generated for.
MaxSchedPlayers == 6
\* UUIDs generated by addPlayer in one run of the roster specification.
MaxRosterIds == 12

(***************************************************************************)
(* Program constants.                                                      *)
(***************************************************************************)
NULL == -1
HALF == 1
POINTS_WIN == 3
POINTS_DRAW == 1
POINTS_LOSS == 0
MAX_PLAYERS == 10

\* The title a new league starts with.
DEFAULT_TITLE == "No. _ tournament, block _"

DUMMY_ID == <<"dummy">>
DUMMY_NAME == "rest"

\* n as the program holds it (half units).
Num(n) == 2 * n
ONE == Num(1)

(***************************************************************************)
(* Ids, names, inputs.                                                     *)
(***************************************************************************)
IdHeads == <<"0000000a", "0000000b", "0000000c", "0000000d", "0000000e",
             "0000000f", "00000010", "00000011", "00000012", "00000013",
             "00000014", "00000015", "00000016", "00000017">>

\* The k-th id crypto.randomUUID() returns: 8-4-4-4-12, five segments.
Uuid(k) == <<IdHeads[k], "0000", "4000", "8000", "000000000000">>

\* Names in the order localeCompare(..., "ja") gives them.
NameOrder == <<"A", "B", "C", "D">>

\* Names typed in the UI specification.
UiNames == {"A"}

Player(i, n) == [id |-> i, name |-> n]

\* What is typed into a score field: the empty string, text that is not a
\* number, or a number (half units; may be negative or fractional).
ScoreInputs ==
    {[kind |-> "empty", n |-> 0], [kind |-> "nan", n |-> 0]}
    \cup {[kind |-> "num", n |-> k] : k \in (-2)..(Num(MaxScore) + 1)}

\* Variant: a negative number is floored and kept.
parseScore_negativeKept(value) ==
    IF value.kind = "empty" THEN NULL
    ELSE IF value.kind = "nan" THEN NULL
    ELSE Num(value.n \div 2)

parseScore(value) ==
    IF value.kind = "empty" THEN NULL
    ELSE IF value.kind = "nan" THEN NULL
    ELSE IF value.n < 0 THEN NULL
    ELSE Num(value.n \div 2)

(***************************************************************************)
(* The result map.                                                         *)
(***************************************************************************)
Key(p1, p2) == p1 \o p2

Result(a, b) == [scoreA |-> a, scoreB |-> b]

EmptyMatches == [k \in {} |-> Result(NULL, NULL)]

Put(ms, key, v) == [k \in (DOMAIN ms) \cup {key} |-> IF k = key THEN v ELSE ms[k]]

\* k.split("-") destructured as [a, b]: the first two segments.
SplitA(k) == <<k[1]>>
SplitB(k) == IF Len(k) >= 2 THEN <<k[2]>> ELSE <<>>

(***************************************************************************)
(* Initial state, the load effect and the save effect.                     *)
(***************************************************************************)
NoData == [present |-> FALSE]

\* Stored text that JSON.parse rejects, or that parses to null.
Unparsable == [present |-> TRUE, parsed |-> FALSE]

\* JSON values, as typeof / Array.isArray / truthiness tell them apart.
Str(s) == [type |-> "string", val |-> s]
Bool(b) == [type |-> "boolean", val |-> b]
Arr(a) == [type |-> "array", val |-> a]
Obj(o) == [type |-> "object", val |-> o]
JsNumber == [type |-> "number", val |-> "1"]
JsNull == [type |-> "null", val |-> "null"]
Missing == [type |-> "undefined", val |-> "undefined"]

\* A stored object with its seven fields.
Stored(t, md, ad, so, ps, ms, ph) ==
    [present |-> TRUE, parsed |-> TRUE,
     title |-> t, mode |-> md, allowDraw |-> ad, showOrder |-> so,
     players |-> ps, matches |-> ms, phase |-> ph]

\* A snapshot as the save effect writes it, under the default title and with
\* the match order hidden.
Snapshot(md, ad, ps, ms, ph) ==
    Stored(Str(DEFAULT_TITLE), md, ad, Bool(FALSE), ps, ms, ph)

\* The component before its first effect runs, on a given localStorage.
Defaults(stored) ==
    /\ isLoaded = FALSE
    /\ phase = "settings"
    /\ title = DEFAULT_TITLE
    /\ mode = "score"
    /\ allowDraw = TRUE
    /\ showOrder = FALSE
    /\ players = <<>>
    /\ matches = EmptyMatches
    /\ nextId = 0
    /\ storage = stored

\* First start: nothing stored.
Init == Defaults(NoData)

\* Variant: the save effect does not depend on showOrder.
SaveDeps_noShowOrder == <<title, mode, allowDraw, players, matches, phase, isLoaded>>

\* The dependency list of the save effect.
SaveDeps == <<title, mode, allowDraw, showOrder, players, matches, phase, isLoaded>>

\* The object the save effect serialises.
SavedData ==
    Stored(Str(title), Str(mode), Bool(allowDraw), Bool(showOrder),
           Arr(players), Obj(matches), Str(phase))

\* The save effect: runs after a render in which a dependency has changed,
\* and returns at once while the load has not completed.  (React compares
\* dependencies by identity; a new object of equal content is saved again,
\* which writes the same text.)
SaveEffect ==
    storage' = IF SaveDeps' # SaveDeps /\ isLoaded'
               THEN SavedData'
               ELSE storage

LoadEffect ==
    /\ ~isLoaded
    /\ IF storage.present /\ storage.parsed
       THEN /\ title' = IF storage.title.type = "string"
                        THEN storage.title.val ELSE DEFAULT_TITLE
            /\ mode' = IF storage.mode = Str("score") \/ storage.mode = Str("win-loss")
                       THEN storage.mode.val ELSE "score"
            /\ allowDraw' = IF storage.allowDraw.type = "boolean"
                            THEN storage.allowDraw.val ELSE TRUE
            /\ showOrder' = IF storage.showOrder.type = "boolean"
                            THEN storage.showOrder.val ELSE FALSE
            /\ players' = IF storage.players.type = "array"
                          THEN storage.players.val ELSE <<>>
            /\ matches' = IF storage.matches.type \in {"object", "array"}
                          THEN storage.matches.val ELSE EmptyMatches
            /\ phase' = IF \/ storage.phase = Str("settings")
                           \/ storage.phase = Str("register")
                           \/ storage.phase = Str("match")
                        THEN storage.phase.val ELSE "settings"
       ELSE UNCHANGED <<title, mode, allowDraw, showOrder, players, matches, phase>>
    /\ isLoaded' = TRUE
    /\ UNCHANGED nextId
    /\ SaveEffect

\* The save effect as it runs on mount, before the loaded values are
\* rendered: isLoaded is still false and it returns.
SaveOnMount ==
    /\ ~isLoaded
    /\ storage' = IF isLoaded THEN SavedData ELSE storage
    /\ UNCHANGED <<isLoaded, phase, title, mode, allowDraw, showOrder, players,
                   matches, nextId>>

(***************************************************************************)
(* Settings and phase buttons.                                             *)
(***************************************************************************)
\* Titles typed into the title field.
TitleInputs == {"Cup", DEFAULT_TITLE}

\* The title field, shown in the match phase.
SetTitle ==
    /\ isLoaded /\ phase = "match"
    /\ \E t \in TitleInputs : title' = t
    /\ UNCHANGED <<isLoaded, phase, mode, allowDraw, showOrder, players, matches, nextId>>
    /\ SaveEffect

\* The "show the match order" checkbox of the settings phase.
SetShowOrder ==
    /\ isLoaded /\ phase = "settings"
    /\ \E b \in BOOLEAN : showOrder' = b
    /\ UNCHANGED <<isLoaded, phase, title, mode, allowDraw, players, matches, nextId>>
    /\ SaveEffect

SetMode ==
    /\ isLoaded /\ phase = "settings"
    /\ \E m \in {"score", "win-loss"} : mode' = m
    /\ UNCHANGED <<isLoaded, title, showOrder, phase, allowDraw, players, matches, nextId>>
    /\ SaveEffect

SetAllowDraw ==
    /\ isLoaded /\ phase = "settings"
    /\ \E b \in BOOLEAN : allowDraw' = b
    /\ UNCHANGED <<isLoaded, title, showOrder, phase, mode, players, matches, nextId>>
    /\ SaveEffect

\* Variant: the start button is shown whatever the roster.
SetPhase_anyRoster ==
    /\ isLoaded
    /\ \/ phase = "settings" /\ phase' = "register"
       \/ phase = "register" /\ phase' = "settings"
       \/ phase = "register" /\ phase' = "match"
       \/ phase = "match" /\ phase' = "register"
    /\ UNCHANGED <<isLoaded, title, showOrder, mode, allowDraw, players, matches, nextId>>
    /\ SaveEffect

SetPhase ==
    /\ isLoaded
    /\ \/ phase = "settings" /\ phase' = "register"
       \/ phase = "register" /\ phase' = "settings"
       \/ phase = "register" /\ Len(players) >= 2 /\ phase' = "match"
       \/ phase = "match" /\ phase' = "register"
    /\ UNCHANGED <<isLoaded, title, showOrder, mode, allowDraw, players, matches, nextId>>
    /\ SaveEffect

(***************************************************************************)
(* Roster.                                                                 *)
(***************************************************************************)
\* Variant: the roster is refused only above the cap.
addPlayerTo_aboveCap(ps, id, name) ==
    IF name = "" THEN ps
    ELSE IF Len(ps) > MAX_PLAYERS THEN ps
    ELSE Append(ps, Player(id, name))

addPlayerTo(ps, id, name) ==
    IF name = "" THEN ps
    ELSE IF Len(ps) >= MAX_PLAYERS THEN ps
    ELSE Append(ps, Player(id, name))

\* The add button (or Enter in the name field), while ids are left.
AddPlayerUpTo(maxIds) ==
    /\ isLoaded /\ phase = "register"
    /\ nextId < maxIds
    /\ \E name \in UiNames \cup {""} :
         /\ players' = addPlayerTo(players, Uuid(nextId + 1), name)
         /\ nextId' = IF players' = players THEN nextId ELSE nextId + 1
    /\ UNCHANGED <<isLoaded, title, showOrder, phase, mode, allowDraw, matches>>
    /\ SaveEffect

AddPlayer == AddPlayerUpTo(MaxIds)

removeFromRoster(ps, id) == SelectSeq(ps, LAMBDA p : p.id # id)

removeFromMatches(ms, id) ==
    LET keep == {k \in DOMAIN ms : ~(SplitA(k) = id \/ SplitB(k) = id)}
    IN  [k \in keep |-> ms[k]]

RemovePlayer ==
    /\ isLoaded /\ phase = "register"
    /\ \E i \in 1..Len(players) :
         /\ players' = removeFromRoster(players, players[i].id)
         /\ matches' = removeFromMatches(matches, players[i].id)
    /\ UNCHANGED <<isLoaded, title, showOrder, phase, mode, allowDraw, nextId>>
    /\ SaveEffect

(***************************************************************************)
(* Result entry.                                                           *)
(***************************************************************************)
updateMatchWinLoss(ms, p1, p2, myScore, oppScore, isReversed) ==
    LET scoreA == IF isReversed THEN oppScore ELSE myScore
        scoreB == IF isReversed THEN myScore ELSE oppScore
    IN  Put(ms, Key(p1, p2), Result(scoreA, scoreB))

\* Variant: the target field does not follow isReversed.
updateMatchScore_sameField(ms, p1, p2, isMyScore, value, isReversed) ==
    LET key == Key(p1, p2)
        val == parseScore(value)
        current == IF key \in DOMAIN ms THEN ms[key] ELSE Result(NULL, NULL)
        updated == IF isMyScore THEN [current EXCEPT !.scoreA = val]
                                ELSE [current EXCEPT !.scoreB = val]
    IN  Put(ms, key, updated)

updateMatchScore(ms, p1, p2, isMyScore, value, isReversed) ==
    LET key == Key(p1, p2)
        val == parseScore(value)
        current == IF key \in DOMAIN ms THEN ms[key] ELSE Result(NULL, NULL)
        targetA == IF ~isReversed THEN isMyScore ELSE ~isMyScore
        updated == IF targetA THEN [current EXCEPT !.scoreA = val]
                              ELSE [current EXCEPT !.scoreB = val]
    IN  Put(ms, key, updated)

\* Variant: no cell counts as mirrored, the key is row-column.
CellReversed_never(i, j) == FALSE

\* The grid cell of row i, column j: the pair is keyed by roster order.
CellReversed(i, j) == i > j
CellP1(ps, i, j) == IF CellReversed(i, j) THEN ps[j].id ELSE ps[i].id
CellP2(ps, i, j) == IF CellReversed(i, j) THEN ps[i].id ELSE ps[j].id

Cells == {c \in (1..Len(players)) \X (1..Len(players)) : c[1] # c[2]}

\* Model bound: the result map holds at most MaxEntries entries.
Room(ms) == Cardinality(DOMAIN ms) <= MaxEntries

\* A value arrives in a score field of the grid.
ScoreInput ==
    /\ isLoaded /\ phase = "match" /\ mode = "score"
    /\ \E c \in Cells, isMyScore \in BOOLEAN, value \in ScoreInputs :
         matches' = updateMatchScore(matches, CellP1(players, c[1], c[2]),
                                     CellP2(players, c[1], c[2]),
                                     isMyScore, value, CellReversed(c[1], c[2]))
    /\ UNCHANGED <<isLoaded, title, showOrder, phase, mode, allowDraw, players, nextId>>
    /\ SaveEffect

ScoreEntry == ScoreInput /\ Room(matches')

\* The three buttons of a win/loss cell; the draw button needs allowDraw.
WinLossButtons ==
    {<<ONE, 0>>, <<0, ONE>>} \cup (IF allowDraw THEN {<<HALF, HALF>>} ELSE {})

\* A button of a win/loss cell of the grid is pressed.
WinLossInput ==
    /\ isLoaded /\ phase = "match" /\ mode = "win-loss"
    /\ \E c \in Cells, b \in WinLossButtons :
         matches' = updateMatchWinLoss(matches, CellP1(players, c[1], c[2]),
                                       CellP2(players, c[1], c[2]),
                                       b[1], b[2], CellReversed(c[1], c[2]))
    /\ UNCHANGED <<isLoaded, title, showOrder, phase, mode, allowDraw, players, nextId>>
    /\ SaveEffect

WinLossEntry == WinLossInput /\ Room(matches')

(***************************************************************************)
(* Result lookup, confirmation, points.                                    *)
(***************************************************************************)
NoResult == [found |-> FALSE, a |-> NULL, b |-> NULL]

\* Variant: the reverse-stored entry is returned without swapping.
getMatchAB_noSwap(ms, p1Id, p2Id) ==
    LET key12 == Key(p1Id, p2Id)
        key21 == Key(p2Id, p1Id)
    IN  IF key12 \in DOMAIN ms
        THEN [found |-> TRUE, a |-> ms[key12].scoreA, b |-> ms[key12].scoreB]
        ELSE IF key21 \in DOMAIN ms
        THEN [found |-> TRUE, a |-> ms[key21].scoreA, b |-> ms[key21].scoreB]
        ELSE NoResult

\* Variant: only the key p1-p2 is looked up.
getMatchAB_forwardOnly(ms, p1Id, p2Id) ==
    LET key12 == Key(p1Id, p2Id)
    IN  IF key12 \in DOMAIN ms
        THEN [found |-> TRUE, a |-> ms[key12].scoreA, b |-> ms[key12].scoreB]
        ELSE NoResult

getMatchAB(ms, p1Id, p2Id) ==
    LET key12 == Key(p1Id, p2Id)
        key21 == Key(p2Id, p1Id)
    IN  IF key12 \in DOMAIN ms
        THEN [found |-> TRUE, a |-> ms[key12].scoreA, b |-> ms[key12].scoreB]
        ELSE IF key21 \in DOMAIN ms
        THEN [found |-> TRUE, a |-> ms[key21].scoreB, b |-> ms[key21].scoreA]
        ELSE NoResult

isConfirmed(ms, md, ad, p1Id, p2Id) ==
    LET ab == getMatchAB(ms, p1Id, p2Id)
    IN  IF ~ab.found THEN FALSE
        ELSE IF ab.a = NULL \/ ab.b = NULL THEN FALSE
        ELSE IF md = "score"
        THEN (IF ~ad /\ ab.a = ab.b THEN FALSE ELSE TRUE)
        ELSE IF ~ad /\ ab.a = HALF THEN FALSE
        ELSE TRUE

calcPointsForP1(md, ad, a, b) ==
    IF md = "score"
    THEN IF a > b THEN POINTS_WIN
         ELSE IF a < b THEN POINTS_LOSS
         ELSE IF ad THEN POINTS_DRAW ELSE 0
    ELSE IF a = ONE THEN POINTS_WIN
         ELSE IF a = HALF THEN (IF ad THEN POINTS_DRAW ELSE 0)
         ELSE POINTS_LOSS

headToHeadCompare(ms, md, ad, aId, bId) ==
    IF ~isConfirmed(ms, md, ad, aId, bId) THEN 0
    ELSE LET ab == getMatchAB(ms, aId, bId)
         IN  IF ~ab.found \/ ab.a = NULL \/ ab.b = NULL THEN 0
             ELSE LET pA == calcPointsForP1(md, ad, ab.a, ab.b)
                      pB == calcPointsForP1(md, ad, ab.b, ab.a)
                  IN  IF pA # pB THEN pB - pA ELSE 0

(***************************************************************************)
(* Standings.                                                              *)
(***************************************************************************)
ZeroStats(p) ==
    [id |-> p.id, name |-> p.name, played |-> 0, points |-> 0, wins |-> 0,
     draws |-> 0, losses |-> 0, goalsFor |-> 0, goalsAgainst |-> 0, goalDiff |-> 0]

\* idx: Map from id to row; a later row with the same id overwrites.
idxOf(ps, id) == CHOOSE i \in 1..Len(ps) :
                    /\ ps[i].id = id
                    /\ \A k \in (i + 1)..Len(ps) : ps[k].id # id

\* The pairs (i, j), i < j, in the order the two loops visit them.
RECURSIVE PairsFrom(_, _, _)
PairsFrom(i, j, n) ==
    IF i >= n THEN <<>>
    ELSE IF j > n THEN PairsFrom(i + 1, i + 2, n)
    ELSE <<<<i, j>>>> \o PairsFrom(i, j + 1, n)

LoopPairs(n) == PairsFrom(1, 2, n)

\* One pass of the inner loop body for the pair (A, B) = (ps[i], ps[j]).
accumulatePair(stats, ps, ms, md, ad, i, j) ==
    LET A == ps[i]
        B == ps[j]
        ab == getMatchAB(ms, A.id, B.id)
    IN  IF ~isConfirmed(ms, md, ad, A.id, B.id) THEN stats
        ELSE IF ~ab.found \/ ab.a = NULL \/ ab.b = NULL THEN stats
        ELSE
          LET a == ab.a
              b == ab.b
              ai == idxOf(ps, A.id)
              bi == idxOf(ps, B.id)
              pA == calcPointsForP1(md, ad, a, b)
              pB == calcPointsForP1(md, ad, b, a)
              s1 == [stats EXCEPT ![ai].played = @ + 1]
              s2 == [s1 EXCEPT ![bi].played = @ + 1]
              s3 == [s2 EXCEPT ![ai].points = @ + pA]
              s4 == [s3 EXCEPT ![bi].points = @ + pB]
              s5 == IF pA = POINTS_WIN
                    THEN [[s4 EXCEPT ![ai].wins = @ + 1] EXCEPT ![bi].losses = @ + 1]
                    ELSE IF pA = POINTS_DRAW
                    THEN [[s4 EXCEPT ![ai].draws = @ + 1] EXCEPT ![bi].draws = @ + 1]
                    ELSE [[s4 EXCEPT ![ai].losses = @ + 1] EXCEPT ![bi].wins = @ + 1]
          IN  IF md = "score"
              THEN LET g1 == [s5 EXCEPT ![ai].goalsFor = @ + a]
                       g2 == [g1 EXCEPT ![ai].goalsAgainst = @ + b]
                       g3 == [g2 EXCEPT ![bi].goalsFor = @ + b]
                   IN  [g3 EXCEPT ![bi].goalsAgainst = @ + a]
              ELSE s5

RECURSIVE accumulate(_, _, _, _, _, _, _)
accumulate(stats, pairs, k, ps, ms, md, ad) ==
    IF k > Len(pairs) THEN stats
    ELSE accumulate(accumulatePair(stats, ps, ms, md, ad, pairs[k][1], pairs[k][2]),
                    pairs, k + 1, ps, ms, md, ad)

\* The stats list before it is sorted (goalDiff filled in).
tally(ps, ms, md, ad) ==
    LET zero == [i \in 1..Len(ps) |-> ZeroStats(ps[i])]
        acc == accumulate(zero, LoopPairs(Len(ps)), 1, ps, ms, md, ad)
    IN  [i \in 1..Len(ps) |->
            [acc[i] EXCEPT !.goalDiff = acc[i].goalsFor - acc[i].goalsAgainst]]

NameRank(n) == CHOOSE k \in 1..Len(NameOrder) : NameOrder[k] = n

localeCompare(x, y) ==
    IF NameRank(x) < NameRank(y) THEN -1
    ELSE IF NameRank(x) > NameRank(y) THEN 1
    ELSE 0

\* The comparator's rules before the name: points, head-to-head, then the
\* numeric tie-breaks of the mode.  0 when all of them tie.
\* Variant: goal difference is not compared.
tieBreaks_noGoalDiff(md, A, B) ==
    IF md = "score"
    THEN IF A.goalsFor # B.goalsFor THEN B.goalsFor - A.goalsFor
         ELSE IF A.wins # B.wins THEN B.wins - A.wins
         ELSE 0
    ELSE IF A.wins # B.wins THEN B.wins - A.wins
         ELSE IF A.losses # B.losses THEN A.losses - B.losses
         ELSE 0

\* The numeric rules after head-to-head, by mode; 0 when all of them tie.
tieBreaks(md, A, B) ==
    IF md = "score"
    THEN IF A.goalDiff # B.goalDiff THEN B.goalDiff - A.goalDiff
         ELSE IF A.goalsFor # B.goalsFor THEN B.goalsFor - A.goalsFor
         ELSE IF A.wins # B.wins THEN B.wins - A.wins
         ELSE 0
    ELSE IF A.wins # B.wins THEN B.wins - A.wins
         ELSE IF A.losses # B.losses THEN A.losses - B.losses
         ELSE 0

preNameCompare(ms, md, ad, A, B) ==
    IF A.points # B.points THEN B.points - A.points
    ELSE LET h2h == headToHeadCompare(ms, md, ad, A.id, B.id)
         IN  IF h2h # 0 THEN h2h ELSE tieBreaks(md, A, B)

\* Variant: in score mode fewer losses decides right after the points.
rankCompare_fewerLosses(ms, md, ad, A, B) ==
    IF A.points # B.points THEN B.points - A.points
    ELSE IF md = "score" /\ A.losses # B.losses THEN A.losses - B.losses
    ELSE LET pre == preNameCompare(ms, md, ad, A, B)
         IN  IF pre # 0 THEN pre ELSE localeCompare(A.name, B.name)

\* The comparator handed to stats.sort.
rankCompare(ms, md, ad, A, B) ==
    LET pre == preNameCompare(ms, md, ad, A, B)
    IN  IF pre # 0 THEN pre ELSE localeCompare(A.name, B.name)

Sign(x) == IF x < 0 THEN -1 ELSE IF x > 0 THEN 1 ELSE 0

\* The comparator as a table over the rows of the unsorted list.
cmpTable(stats, ms, md, ad) ==
    [i \in 1..Len(stats) |->
        [j \in 1..Len(stats) |-> Sign(rankCompare(ms, md, ad, stats[i], stats[j]))]]

\* ECMAScript's "consistent comparator" on the rows of the list.
consistentComparator(c) ==
    LET n == Len(c)
    IN  /\ \A i \in 1..n : c[i][i] = 0
        /\ \A i, j \in 1..n : c[i][j] = -c[j][i]
        /\ \A i, j, k \in 1..n :
             /\ (c[i][j] <= 0 /\ c[j][k] <= 0) => c[i][k] <= 0
             /\ (c[i][j] < 0 /\ c[j][k] <= 0) => c[i][k] < 0
             /\ (c[i][j] <= 0 /\ c[j][k] < 0) => c[i][k] < 0

\* Stable insertion of row x into the sorted list of rows t.
RECURSIVE insertRow(_, _, _, _)
insertRow(t, x, c, k) ==
    IF k >= 1 /\ c[t[k]][x] > 0
    THEN insertRow(t, x, c, k - 1)
    ELSE SubSeq(t, 1, k) \o <<x>> \o SubSeq(t, k + 1, Len(t))

RECURSIVE sortedRows(_, _)
sortedRows(c, k) ==
    IF k = 0 THEN <<>>
    ELSE LET t == sortedRows(c, k - 1) IN insertRow(t, k, c, Len(t))

RowOrders(n) ==
    {o \in [1..n -> 1..n] : \A i, j \in 1..n : i # j => o[i] # o[j]}

\* Array.prototype.sort: stable; with a consistent comparator the result is
\* the one stable sorted order, otherwise the order is implementation-defined.
sortOutcomes(stats, ms, md, ad) ==
    LET c == cmpTable(stats, ms, md, ad)
        n == Len(stats)
    IN  IF consistentComparator(c)
        THEN {[i \in 1..n |-> stats[sortedRows(c, n)[i]]]}
        ELSE {[i \in 1..n |-> stats[o[i]]] : o \in RowOrders(n)}

\* The lists calculateStats can return.
calculateStats(ps, ms, md, ad) == sortOutcomes(tally(ps, ms, md, ad), ms, md, ad)

rankedPlayers == calculateStats(players, matches, mode, allowDraw)

(***************************************************************************)
(* Schedule (circle method).                                               *)
(***************************************************************************)
ScheduledMatch(no, p1, p2, isBye) == [no |-> no, p1 |-> p1, p2 |-> p2, isBye |-> isBye]

\* Variant: the inner pairings start one place too far right.
roundPairs_shifted(fixed, rotating, half) ==
    <<<<fixed, rotating[Len(rotating)]>>>>
    \o [i \in 1..(half - 1) |-> <<rotating[i], rotating[Len(rotating) - i + 1]>>]

\* The pairings of one round in generation order: the fixed participant with
\* the last of the rotating list, then the rotating list from both ends.
roundPairs(fixed, rotating, half) ==
    <<<<fixed, rotating[Len(rotating)]>>>>
    \o [i \in 1..(half - 1) |-> <<rotating[i], rotating[Len(rotating) - i]>>]

\* Numbers the pairings from matchCount on; a bye gets no number.
RECURSIVE numberPairs(_, _, _)
numberPairs(pairs, k, matchCount) ==
    IF k > Len(pairs) THEN <<>>
    ELSE LET p1 == pairs[k][1]
             p2 == pairs[k][2]
             isBye == p1.id = DUMMY_ID \/ p2.id = DUMMY_ID
             no == IF isBye THEN NULL ELSE matchCount
         IN  <<ScheduledMatch(no, p1, p2, isBye)>>
             \o numberPairs(pairs, k + 1, IF isBye THEN matchCount ELSE matchCount + 1)

\* Variant: a bye is left as it was generated.
normalizeBye_asGenerated(m) == m

\* A bye shows the real participant first.
normalizeBye(m) ==
    IF ~m.isBye THEN m
    ELSE IF m.p1.id = DUMMY_ID /\ m.p2.id # DUMMY_ID
    THEN [m EXCEPT !.p1 = m.p2, !.p2 = m.p1]
    ELSE m

realCount(ms) == Len(SelectSeq(ms, LAMBDA m : ~m.isBye))

\* Variant: the match counter starts again at 1 in every round.
roundOf_resetCount(roundNo, fixed, rotating, half, matchCount) ==
    LET numbered == numberPairs(roundPairs(fixed, rotating, half), 1, 1)
        matchesInRound == [k \in 1..Len(numbered) |-> normalizeBye(numbered[k])]
        realMatches == SelectSeq(matchesInRound, LAMBDA m : ~m.isBye)
        byes == SelectSeq(matchesInRound, LAMBDA m : m.isBye)
    IN  [roundNo |-> roundNo, matches |-> realMatches \o byes]

roundOf(roundNo, fixed, rotating, half, matchCount) ==
    LET numbered == numberPairs(roundPairs(fixed, rotating, half), 1, matchCount)
        matchesInRound == [k \in 1..Len(numbered) |-> normalizeBye(numbered[k])]
        realMatches == SelectSeq(matchesInRound, LAMBDA m : ~m.isBye)
        byes == SelectSeq(matchesInRound, LAMBDA m : m.isBye)
    IN  [roundNo |-> roundNo, matches |-> realMatches \o byes]

\* Variant: the rotating list is left as it is.
rotate_none(rotating) == rotating

\* rotating.pop() then rotating.unshift(last).
rotate(rotating) ==
    IF Len(rotating) = 0 THEN rotating
    ELSE <<rotating[Len(rotating)]>> \o SubSeq(rotating, 1, Len(rotating) - 1)

RECURSIVE roundsFrom(_, _, _, _, _, _)
roundsFrom(r, rounds, fixed, rotating, half, matchCount) ==
    IF r >= rounds THEN <<>>
    ELSE LET round == roundOf(r + 1, fixed, rotating, half, matchCount)
         IN  <<round>>
             \o roundsFrom(r + 1, rounds, fixed, rotate(rotating), half,
                           matchCount + realCount(round.matches))

\* Variant: a single participant is scheduled too.
scheduleOf_fromOne(ps) ==
    IF Len(ps) < 1 THEN <<>>
    ELSE LET list == IF Len(ps) % 2 # 0
                     THEN Append(ps, Player(DUMMY_ID, DUMMY_NAME))
                     ELSE ps
             n == Len(list)
         IN  roundsFrom(0, n - 1, list[1], SubSeq(list, 2, n), n \div 2, 1)

\* Variant: no placeholder is appended to an odd roster.
scheduleOf_noBye(ps) ==
    IF Len(ps) < 2 THEN <<>>
    ELSE LET n == Len(ps)
         IN  roundsFrom(0, n - 1, ps[1], SubSeq(ps, 2, n), n \div 2, 1)

scheduleOf(ps) ==
    IF Len(ps) < 2 THEN <<>>
    ELSE LET list == IF Len(ps) % 2 # 0
                     THEN Append(ps, Player(DUMMY_ID, DUMMY_NAME))
                     ELSE ps
             n == Len(list)
         IN  roundsFrom(0, n - 1, list[1], SubSeq(list, 2, n), n \div 2, 1)

roundSchedule == scheduleOf(players)

\* Every entry of the schedule, round after round.
RECURSIVE flatten(_, _)
flatten(rs, k) == IF k > Len(rs) THEN <<>> ELSE rs[k].matches \o flatten(rs, k + 1)

\* Variant: a match is registered under the key p1-p2 only.
orderMapOf_oneWay(rs) ==
    LET all == flatten(rs, 1)
        real == SelectSeq(all, LAMBDA m : ~(m.isBye \/ m.no = NULL))
        keys == {Key(real[k].p1.id, real[k].p2.id) : k \in 1..Len(real)}
        lastOf(key) == CHOOSE k \in 1..Len(real) :
                          /\ key = Key(real[k].p1.id, real[k].p2.id)
                          /\ \A j \in (k + 1)..Len(real) :
                               key # Key(real[j].p1.id, real[j].p2.id)
    IN  [key \in keys |-> real[lastOf(key)].no]

orderMapOf(rs) ==
    LET all == flatten(rs, 1)
        real == SelectSeq(all, LAMBDA m : ~(m.isBye \/ m.no = NULL))
        keys == {Key(real[k].p1.id, real[k].p2.id) : k \in 1..Len(real)}
                \cup {Key(real[k].p2.id, real[k].p1.id) : k \in 1..Len(real)}
        \* a later assignment to the same key overwrites an earlier one
        lastOf(key) == CHOOSE k \in 1..Len(real) :
                          /\ key \in {Key(real[k].p1.id, real[k].p2.id),
                                      Key(real[k].p2.id, real[k].p1.id)}
                          /\ \A j \in (k + 1)..Len(real) :
                               key \notin {Key(real[j].p1.id, real[j].p2.id),
                                           Key(real[j].p2.id, real[j].p1.id)}
    IN  [key \in keys |-> real[lastOf(key)].no]

matchOrderMap == orderMapOf(roundSchedule)

(***************************************************************************)
(* A render, on a heap.  The three derived values are computed by code     *)
(* that sorts, pushes, pops, unshifts and assigns in place; which arrays   *)
(* and objects those writes land in depends on what was copied.  A cell is *)
(* an array (a sequence of cells) or an object; the state is the roster    *)
(* array, its participant objects and the result map.                      *)
(***************************************************************************)
Cell(kind, i) == <<kind, i>>

PlayersCell == Cell("players", 0)
MatchesCell == Cell("matches", 0)

write(hp, cell, v) == [c \in (DOMAIN hp) \cup {cell} |-> IF c = cell THEN v ELSE hp[c]]

\* The heap a render starts on.
stateHeap(ps, ms) ==
    [c \in {PlayersCell, MatchesCell} \cup {Cell("player", i) : i \in 1..Len(ps)} |->
        IF c = PlayersCell THEN [i \in 1..Len(ps) |-> Cell("player", i)]
        ELSE IF c = MatchesCell THEN ms
        ELSE ps[c[2]]]

\* The objects an array holds.
deref(hp, arr) == [i \in 1..Len(hp[arr]) |-> hp[hp[arr][i]]]

\* Variant: the array is not copied, the new name is the same array.
arrayCopy_alias(hp, src, fresh) == [cells |-> hp, ref |-> src]

\* [...src]: a new array holding the same objects.
arrayCopy(hp, src, fresh) == [cells |-> write(hp, fresh, hp[src]), ref |-> fresh]

RECURSIVE writeAll(_, _, _, _)
\* One object per row of vs, in the cells kind/base+1, kind/base+2, ...
writeAll(hp, kind, base, vs) ==
    IF Len(vs) = 0 THEN hp
    ELSE writeAll(write(hp, Cell(kind, base + Len(vs)), vs[Len(vs)]), kind, base,
                  SubSeq(vs, 1, Len(vs) - 1))

\* calculateStats: stats = players.map((p) => ({...p, ...})) makes a new
\* array of new objects; the pair loop and the goalDiff loop assign to the
\* fields of those objects; stats.sort reorders the stats array in place.
statsOnHeap(hp, md, ad, order) ==
    LET ps == deref(hp, PlayersCell)
        ms == hp[MatchesCell]
        n == Len(ps)
        mapped == write(writeAll(hp, "stat", 0, [i \in 1..n |-> ZeroStats(ps[i])]),
                        Cell("stats", 0), [i \in 1..n |-> Cell("stat", i)])
        tallied == writeAll(mapped, "stat", 0, tally(ps, ms, md, ad))
    IN  write(tallied, Cell("stats", 0), [i \in 1..n |-> tallied[Cell("stats", 0)][order[i]]])

\* The orders stats.sort can leave the rows in.
sortOrders(ps, ms, md, ad) ==
    LET stats == tally(ps, ms, md, ad)
        c == cmpTable(stats, ms, md, ad)
    IN  IF consistentComparator(c) THEN {sortedRows(c, Len(stats))}
        ELSE RowOrders(Len(stats))

RECURSIVE roundsOnHeap(_, _, _, _, _, _, _)
\* The round loop: the match objects of the round are created, a bye with
\* the placeholder first has its p1 and p2 assigned the other way round,
\* and the rotating array has its last element popped and unshifted.
roundsOnHeap(hp, r, rounds, fixedCell, rotatingCell, half, matchCount) ==
    IF r >= rounds THEN hp
    ELSE LET fixed == hp[fixedCell]
             rotating == deref(hp, rotatingCell)
             created == numberPairs(roundPairs(fixed, rotating, half), 1, matchCount)
             base == r * (half + 1)
             pushed == writeAll(hp, "match", base, created)
             swapped == writeAll(pushed, "match", base,
                                 [k \in 1..Len(created) |-> normalizeBye(created[k])])
             rotated == write(swapped, rotatingCell, rotate(swapped[rotatingCell]))
         IN  roundsOnHeap(rotated, r + 1, rounds, fixedCell, rotatingCell, half,
                          matchCount + realCount(created))

\* roundSchedule: ps = [...players], the placeholder pushed onto ps for an
\* odd roster, rotating = ps.slice(1), then the round loop.
scheduleOnHeap(hp) ==
    IF Len(hp[PlayersCell]) < 2 THEN hp
    ELSE LET copied == arrayCopy(hp, PlayersCell, Cell("ps", 0))
             ps == copied.ref
             withDummy == write(copied.cells, Cell("dummy", 0), Player(DUMMY_ID, DUMMY_NAME))
             pushed == IF Len(withDummy[ps]) % 2 # 0
                       THEN write(withDummy, ps, Append(withDummy[ps], Cell("dummy", 0)))
                       ELSE withDummy
             n == Len(pushed[ps])
             sliced == write(pushed, Cell("rotating", 0), Tail(pushed[ps]))
         IN  roundsOnHeap(sliced, 0, n - 1, sliced[ps][1], Cell("rotating", 0), n \div 2, 1)

\* matchOrderMap: a new object, filled from the schedule.
orderMapOnHeap(hp) ==
    write(hp, Cell("map", 0), orderMapOf(scheduleOf(deref(hp, PlayersCell))))

\* The heaps a render can end on.
renderedHeaps(ps, ms, md, ad) ==
    {orderMapOnHeap(scheduleOnHeap(statsOnHeap(stateHeap(ps, ms), md, ad, order))) :
        order \in sortOrders(ps, ms, md, ad)}

\* A render: rankedPlayers, roundSchedule and matchOrderMap are computed.
Render ==
    /\ isLoaded
    /\ \E hp \in renderedHeaps(players, matches, mode, allowDraw) :
         /\ players' = deref(hp, PlayersCell)
         /\ matches' = hp[MatchesCell]
    /\ UNCHANGED <<isLoaded, phase, title, mode, allowDraw, showOrder, nextId>>
    /\ SaveEffect

(***************************************************************************)
(* updateMatchScore on a heap: the result map is an object whose keys hold *)
(* entry objects; the update builds its result with two spreads.           *)
(***************************************************************************)
PrevCell == <<"prev">>
EntryCell(key) == <<"entry">> \o key

\* The heap the update starts on: prev and its entries.
matchesHeap(ms) ==
    [c \in {PrevCell} \cup {EntryCell(k) : k \in DOMAIN ms} |->
        IF c = PrevCell THEN [k \in DOMAIN ms |-> EntryCell(k)] ELSE ms[Tail(c)]]

\* The result map an object cell holds.
mapIn(hp, ref) == [k \in DOMAIN hp[ref] |-> hp[hp[ref][k]]]

\* Variant: no copy is made, the new name is the same object.
objectCopy_alias(hp, src, fresh) == [cells |-> hp, ref |-> src]

\* {...src}: a new object with the same fields.
objectCopy(hp, src, fresh) == [cells |-> write(hp, fresh, hp[src]), ref |-> fresh]

\* The functional update of updateMatchScore: current = prev[key] || a new
\* blank entry, updated = {...current, [targetField]: val}, and the result
\* {...prev, [key]: updated}.
scoreOnHeap(hp, key, targetA, val) ==
    LET prev == hp[PrevCell]
        blank == write(hp, <<"blank">>, Result(NULL, NULL))
        current == IF key \in DOMAIN prev THEN prev[key] ELSE <<"blank">>
        updated == objectCopy(blank, current, <<"updated">>)
        assigned == write(updated.cells, updated.ref,
                          IF targetA
                          THEN [updated.cells[updated.ref] EXCEPT !.scoreA = val]
                          ELSE [updated.cells[updated.ref] EXCEPT !.scoreB = val])
        next == objectCopy(assigned, PrevCell, <<"next">>)
    IN  [cells |-> write(next.cells, next.ref, Put(next.cells[next.ref], key, updated.ref)),
         ref |-> next.ref]

(***************************************************************************)
(* The UI from a first start (nothing stored), title and match-order       *)
(* display left as they are.                                               *)
(***************************************************************************)
Next ==
    \/ LoadEffect
    \/ SetMode
    \/ SetAllowDraw
    \/ SetPhase
    \/ AddPlayer
    \/ RemovePlayer
    \/ ScoreEntry
    \/ WinLossEntry

Spec == Init /\ [][Next]_vars

(***************************************************************************)
(* Load and save: a start on nothing, on text that does not parse, or on a *)
(* snapshot an earlier session saved, followed by every handler that       *)
(* changes one of the seven saved fields.                                  *)
(***************************************************************************)
\* Ids an earlier session generated: none of those this session generates.
EarlierId(k) == Uuid(MaxIds + k)

EarlierSession ==
    Stored(Str("Cup"), Str("win-loss"), Bool(FALSE), Bool(TRUE),
           Arr(<<Player(EarlierId(1), NameOrder[1]), Player(EarlierId(2), NameOrder[2])>>),
           Obj(Put(EmptyMatches, Key(EarlierId(1), EarlierId(2)), Result(ONE, 0))),
           Str("match"))

InitStore == \E stored \in {NoData, Unparsable, EarlierSession} : Defaults(stored)

NextStore ==
    \/ SaveOnMount
    \/ LoadEffect
    \/ SetTitle
    \/ SetMode
    \/ SetAllowDraw
    \/ SetShowOrder
    \/ SetPhase
    \/ AddPlayer
    \/ RemovePlayer
    \/ WinLossEntry

SpecStore == InitStore /\ [][NextStore]_vars

(***************************************************************************)
(* The load alone, on stored objects whose fields are each well-formed, of *)
(* another JSON type, or missing.                                          *)
(***************************************************************************)
StoredTitles == {Str("Cup"), JsNumber, Missing}

StoredModes == {Str("score"), Str("win-loss"), Str("knockout"), Missing}

StoredFlags == {Bool(TRUE), Bool(FALSE), Str("true"), Missing}

StoredPlayers ==
    {Arr(<<>>),
     Arr(<<Player(EarlierId(1), NameOrder[1]), Player(EarlierId(2), NameOrder[2])>>),
     Obj(EmptyMatches), JsNull, Missing}

\* A JSON array [r] of one result: an object whose one own key is "0".
ResultArray == Arr(Put(EmptyMatches, <<"0">>, Result(ONE, 0)))

StoredMatches ==
    {Obj(EmptyMatches),
     Obj(Put(EmptyMatches, Key(EarlierId(1), EarlierId(2)), Result(ONE, 0))),
     ResultArray, Str("none"), JsNull, Missing}

StoredPhases == {Str("settings"), Str("register"), Str("match"), Str("done"), Missing}

StoredObjects ==
    {Stored(t, md, ad, so, ps, ms, ph) :
        t \in StoredTitles, md \in StoredModes, ad \in StoredFlags,
        so \in StoredFlags, ps \in StoredPlayers, ms \in StoredMatches,
        ph \in StoredPhases}

InitLoad == \E stored \in StoredObjects \cup {NoData, Unparsable} : Defaults(stored)

NextLoad ==
    \/ SaveOnMount
    \/ LoadEffect

SpecLoad == InitLoad /\ [][NextLoad]_vars

(***************************************************************************)
(* The roster form alone, from an empty roster, with ids enough to fill    *)
(* the roster and go on adding.                                            *)
(***************************************************************************)
InitRoster ==
    /\ isLoaded = TRUE
    /\ phase = "register"
    /\ title = DEFAULT_TITLE
    /\ mode = "score"
    /\ allowDraw = TRUE
    /\ showOrder = FALSE
    /\ players = <<>>
    /\ matches = EmptyMatches
    /\ nextId = 0
    /\ storage = Snapshot(Str("score"), Bool(TRUE), Arr(<<>>), Obj(EmptyMatches),
                          Str("register"))

AddToRoster == AddPlayerUpTo(MaxRosterIds)

NextRoster ==
    \/ AddToRoster
    \/ RemovePlayer

SpecRoster == InitRoster /\ [][NextRoster]_vars

(***************************************************************************)
(* The roster and the result grid alone, from the empty state, under fixed *)
(* settings: addPlayer, removePlayer and the two result handlers, with     *)
(* the result map as large as the ids allow.                               *)
(***************************************************************************)
InitGrid ==
    \E md \in {"score", "win-loss"}, ad \in BOOLEAN :
      /\ isLoaded = TRUE
      /\ phase = "settings"
      /\ mode = md
      /\ allowDraw = ad
      /\ players = <<>>
      /\ matches = EmptyMatches
      /\ nextId = 0
      /\ title = DEFAULT_TITLE
      /\ showOrder = FALSE
      /\ storage = Snapshot(Str(md), Bool(ad), Arr(<<>>), Obj(EmptyMatches),
                            Str("settings"))

NextGrid ==
    \/ SetPhase
    \/ AddPlayer
    \/ RemovePlayer
    \/ ScoreInput
    \/ WinLossInput

SpecGrid == InitGrid /\ [][NextGrid]_vars

(***************************************************************************)
(* A start on a stored roster: the schedule is a function of the roster    *)
(* alone, so the result map is empty and only the roster varies.           *)
(***************************************************************************)
\* The sequences of distinct elements of S, up to length n.
DistinctSeqs(S, n) ==
    UNION {{q \in [1..k -> S] : \A i, j \in 1..k : i # j => q[i] # q[j]} : k \in 0..n}

StoredRosters ==
    {[i \in 1..Len(q) |-> Player(Uuid(q[i]), NameOrder[1])] :
        q \in DistinctSeqs(1..MaxSchedPlayers, MaxSchedPlayers)}

InitSchedule ==
    \E ps \in StoredRosters :
        Defaults(Snapshot(Str("score"), Bool(TRUE), Arr(ps), Obj(EmptyMatches),
                          Str("register")))

NextSchedule ==
    \/ LoadEffect
    \/ RemovePlayer

SpecSchedule == InitSchedule /\ [][NextSchedule]_vars

(***************************************************************************)
(* A start on a stored snapshot with any result map: the lookup and the    *)
(* standings are functions of roster, result map, mode and allowDraw.      *)
(***************************************************************************)
\* The values a score field can hold.
ScoreVals == {NULL, 0, HALF} \cup {Num(k) : k \in 1..MaxScore}

\* Finished results: whole scores, or the win/loss draw.
FinishedVals ==
    {Result(Num(a), Num(b)) : a, b \in 0..MaxScore} \cup {Result(HALF, HALF)}

AnyNames == {"A", "B"}

\* Rosters of the first k ids, with any names.
NamedRosters(k) ==
    {[i \in 1..k |-> Player(Uuid(i), nm[i])] : nm \in [1..k -> AnyNames]}

\* A result map from a choice per key: absent (0) or one of the values.
MapOf(keys, choice) ==
    [k \in {x \in keys : choice[x].scoreA # NULL - 1} |-> choice[k]]

Absent == Result(NULL - 1, NULL - 1)

\* Two participants; each of the two keys absent or holding any two values.
PairKeys == {Key(Uuid(1), Uuid(2)), Key(Uuid(2), Uuid(1))}

PairMaps ==
    {MapOf(PairKeys, c) :
        c \in [PairKeys -> {Absent} \cup {Result(a, b) : a, b \in ScoreVals}]}

InitPair ==
    \E ps \in UNION {NamedRosters(k) : k \in 0..2}, ms \in PairMaps,
       md \in {"score", "win-loss"}, ad \in BOOLEAN :
        Defaults(Snapshot(Str(md), Bool(ad), Arr(ps), Obj(ms), Str("settings")))

\* Three participants; each pair absent, or a finished result stored under
\* one of its two keys.
LeaguePairs == {<<1, 2>>, <<1, 3>>, <<2, 3>>}

LeagueChoices == {[dir |-> d, res |-> r] : d \in {"none"}, r \in {Absent}}
                 \cup {[dir |-> d, res |-> r] : d \in {"fwd", "rev"}, r \in FinishedVals}

LeagueMap(c) ==
    LET keyOf(pr) == IF c[pr].dir = "rev" THEN Key(Uuid(pr[2]), Uuid(pr[1]))
                                          ELSE Key(Uuid(pr[1]), Uuid(pr[2]))
        used == {pr \in LeaguePairs : c[pr].dir # "none"}
        pairOf(key) == CHOOSE pr \in used : keyOf(pr) = key
    IN  [key \in {keyOf(pr) : pr \in used} |-> c[pairOf(key)].res]

LeagueNames == {<<"A", "B", "C">>, <<"C", "B", "A">>, <<"B", "A", "B">>}

LeagueRosters == {[i \in 1..3 |-> Player(Uuid(i), nm[i])] : nm \in LeagueNames}

InitLeague ==
    \E ps \in LeagueRosters, c \in [LeaguePairs -> LeagueChoices],
       md \in {"score", "win-loss"}, ad \in BOOLEAN :
        Defaults(Snapshot(Str(md), Bool(ad), Arr(ps), Obj(LeagueMap(c)),
                          Str("settings")))

InitAny == InitPair \/ InitLeague

NextAny ==
    \/ LoadEffect
    \/ SetMode
    \/ SetAllowDraw

SpecAny == InitAny /\ [][NextAny]_vars

\* The three-participant leagues alone: every stored result is a finished
\* one under a single key, as the match grid writes them.

SpecLeague == InitLeague /\ [][NextAny]_vars

\* Four participants in score mode, part of the league played: 1 and 2 have
\* met with a 1-0 either way or not at all, each has met 3 and 4 with a
\* decisive whole-number score or not at all, 3 and 4 have not met.  Keys as
\* the match grid writes them.
DecisiveVals ==
    {Result(Num(a), Num(b)) : a, b \in 0..MaxLeagueScore} \ {Result(Num(a), Num(a)) : a \in 0..MaxLeagueScore}

FourDirect == Key(Uuid(1), Uuid(2))

FourKeys == {Key(Uuid(i), Uuid(j)) : i \in {1, 2}, j \in {3, 4}}

FourMaps ==
    {MapOf(FourKeys \cup {FourDirect}, c) :
        c \in {f \in [FourKeys \cup {FourDirect} -> {Absent} \cup DecisiveVals] :
                  f[FourDirect] \in {Absent, Result(ONE, 0), Result(0, ONE)}}}

FourRoster == [i \in 1..4 |-> Player(Uuid(i), NameOrder[i])]

InitFour ==
    \E ms \in FourMaps, ad \in BOOLEAN :
        Defaults(Snapshot(Str("score"), Bool(ad), Arr(FourRoster), Obj(ms),
                          Str("settings")))

NextFour ==
    \/ LoadEffect
    \/ SetAllowDraw

SpecFour == InitFour /\ [][NextFour]_vars

\* Three participants A, B, C: A-B and B-C each not played or holding any two
\* whole scores, A-C not played.
ChainKeys == {Key(Uuid(1), Uuid(2)), Key(Uuid(2), Uuid(3))}

ChainMaps ==
    {MapOf(ChainKeys, c) :
        c \in [ChainKeys -> {Absent} \cup {Result(Num(a), Num(b)) : a, b \in 0..MaxChainScore}]}

ChainRoster == [i \in 1..3 |-> Player(Uuid(i), NameOrder[i])]

InitChain ==
    \E ms \in ChainMaps, md \in {"score", "win-loss"}, ad \in BOOLEAN :
        Defaults(Snapshot(Str(md), Bool(ad), Arr(ChainRoster), Obj(ms),
                          Str("settings")))

SpecChain == InitChain /\ [][NextAny]_vars

\* Renders: rosters of none to four participants, with the results of the
\* three-participant chains.
RenderRosters == {SubSeq(FourRoster, 1, k) : k \in 0..4}

InitRender ==
    \E ps \in RenderRosters, ms \in ChainMaps,
       md \in {"score", "win-loss"}, ad \in BOOLEAN :
        Defaults(Snapshot(Str(md), Bool(ad), Arr(ps), Obj(ms), Str("match")))

NextRender ==
    \/ LoadEffect
    \/ Render

SpecRender == InitRender /\ [][NextRender]_vars

\* The score grid alone, opened on a stored roster of three with no results.
InitScore ==
    Defaults(Snapshot(Str("score"), Bool(TRUE), Arr(ChainRoster), Obj(EmptyMatches),
                      Str("match")))

NextScore ==
    \/ LoadEffect
    \/ ScoreInput

SpecScore == InitScore /\ [][NextScore]_vars

(***************************************************************************)
(* Schedule properties (SpecSchedule).                                     *)
(***************************************************************************)
realOf(entries) == SelectSeq(entries, LAMBDA m : ~m.isBye)

idsOf(ps) == {ps[i].id : i \in 1..Len(ps)}

\* C1: with N >= 2 participants, every unordered pair of real participants
\* meets in exactly one non-bye match of the whole schedule, and a non-bye
\* match is between two different real participants.
C1_EveryPairOnce ==
    LET real == realOf(flatten(roundSchedule, 1))
        met == [k \in 1..Len(real) |-> {real[k].p1.id, real[k].p2.id}]
        ids == idsOf(players)
    IN  Len(players) >= 2 =>
          /\ \A i, j \in 1..Len(players) :
               i < j =>
                 Cardinality({k \in 1..Len(real) :
                                met[k] = {players[i].id, players[j].id}}) = 1
          /\ \A k \in 1..Len(real) :
               /\ real[k].p1.id \in ids
               /\ real[k].p2.id \in ids
               /\ real[k].p1.id # real[k].p2.id

\* An odd roster of five: ten real matches and five byes are scheduled.
C1_Witness ==
    LET all == flatten(roundSchedule, 1)
    IN  /\ isLoaded
        /\ Len(players) = 5
        /\ Len(realOf(all)) = 10
        /\ Len(all) = 15

\* C2: in every round every real participant is in exactly one entry, as a
\* side of a real match or as the resting participant of a bye.
C2_EachRoundCoversAll ==
    LET rs == roundSchedule
    IN  \A r \in 1..Len(rs) :
          LET ms == rs[r].matches
          IN  /\ \A i \in 1..Len(players) :
                   Cardinality({k \in 1..Len(ms) :
                                  players[i].id \in {ms[k].p1.id, ms[k].p2.id}}) = 1
              /\ \A k \in 1..Len(ms) : ms[k].p1.id # ms[k].p2.id

\* Six participants: three entries per round, none a bye.
C2_Witness ==
    LET rs == roundSchedule
    IN  /\ isLoaded
        /\ Len(players) = 6
        /\ Len(rs) >= 1
        /\ \A r \in 1..Len(rs) :
             /\ Len(rs[r].matches) = 3
             /\ \A k \in 1..3 : ~rs[r].matches[k].isBye

\* C3: N >= 2 participants give N - 1 rounds when N is even and N rounds when
\* N is odd, numbered 1, 2, 3, ... in generation order.
C3_RoundCount ==
    LET rs == roundSchedule
    IN  Len(players) >= 2 =>
          /\ Len(rs) = IF Len(players) % 2 = 0 THEN Len(players) - 1
                                               ELSE Len(players)
          /\ \A r \in 1..Len(rs) : rs[r].roundNo = r

\* Three participants: three rounds.
C3_Witness ==
    LET rs == roundSchedule
    IN  /\ isLoaded
        /\ Len(players) = 3
        /\ Len(rs) = 3
        /\ rs[3].roundNo = 3

\* C4: read round after round, the non-bye matches carry the numbers
\* 1, 2, ..., N(N-1)/2 in that order (no repeat, no gap, never reset), and
\* every bye entry has no number.
C4_SequenceNumbers ==
    LET all == flatten(roundSchedule, 1)
        real == realOf(all)
    IN  Len(players) >= 2 =>
          /\ Len(real) = (Len(players) * (Len(players) - 1)) \div 2
          /\ \A k \in 1..Len(real) : real[k].no = k
          /\ \A k \in 1..Len(all) : all[k].isBye => all[k].no = NULL

\* Five participants: the second round starts at number 3 and byes exist.
C4_Witness ==
    LET rs == roundSchedule
    IN  /\ isLoaded
        /\ Len(players) = 5
        /\ rs[2].matches[1].no = 3
        /\ rs[1].matches[3].isBye
        /\ rs[1].matches[3].no = NULL

(***************************************************************************)
(* Lookup and standings properties.                                        *)
(***************************************************************************)
LookupIds == {Uuid(1), Uuid(2), Uuid(3)}

\* Both "no result", or each the other with a and b swapped.
mirrored(r1, r2) ==
    \/ ~r1.found /\ ~r2.found
    \/ r1.found /\ r2.found /\ r1.a = r2.b /\ r1.b = r2.a

\* C5 as stated: for any two ids and any contents of the result map,
\* getMatchAB(X,Y) and getMatchAB(Y,X) are both "no result" or mirror images.
C5_AnyContents ==
    \A X, Y \in LookupIds :
        mirrored(getMatchAB(matches, X, Y), getMatchAB(matches, Y, X))

\* C5: for two different ids X and Y and a result map that holds at most one
\* of the keys X-Y and Y-X, getMatchAB(X,Y) and getMatchAB(Y,X) are both
\* "no result" or each is the other with a and b swapped.
C5_LookupSymmetry ==
    \A X, Y \in LookupIds :
        (X # Y /\ ~(Key(X, Y) \in DOMAIN matches /\ Key(Y, X) \in DOMAIN matches))
          => mirrored(getMatchAB(matches, X, Y), getMatchAB(matches, Y, X))

\* A pair stored once, under the reverse key, with two different scores.
C5_Witness ==
    /\ isLoaded
    /\ Key(Uuid(2), Uuid(1)) \in DOMAIN matches
    /\ Key(Uuid(1), Uuid(2)) \notin DOMAIN matches
    /\ matches[Key(Uuid(2), Uuid(1))].scoreA = ONE
    /\ matches[Key(Uuid(2), Uuid(1))].scoreB = 0
    /\ getMatchAB(matches, Uuid(1), Uuid(2)).a = 0

RECURSIVE sumTo(_, _)
sumTo(f, n) == IF n = 0 THEN 0 ELSE f[n] + sumTo(f, n - 1)

\* An unordered roster pair can be put to isConfirmed and getMatchAB either
\* way round.
Views == {"first", "second"}

askP1(ps, pr, view) == IF view = "first" THEN ps[pr[1]].id ELSE ps[pr[2]].id

askP2(ps, pr, view) == IF view = "first" THEN ps[pr[2]].id ELSE ps[pr[1]].id

\* The roster pairs for which isConfirmed is true, asked the given way round.
confirmedPairs(ps, ms, md, ad, view) ==
    {pr \in (1..Len(ps)) \X (1..Len(ps)) :
        /\ pr[1] < pr[2]
        /\ isConfirmed(ms, md, ad, askP1(ps, pr, view), askP2(ps, pr, view))}

\* C6 as stated: the played counts of the list calculateStats returns add up
\* to twice the number of unordered roster pairs for which isConfirmed is
\* true, whichever way round the pair is put to isConfirmed.
C6_PlayedTotal ==
    \A out \in rankedPlayers : \A view \in Views :
        sumTo([i \in 1..Len(out) |-> out[i].played], Len(out))
          = 2 * Cardinality(confirmedPairs(players, matches, mode, allowDraw, view))

\* A draw as the data model defines it: equal scores in score mode, the value
\* 0.5 in win/loss mode.
isDraw(md, ab) == IF md = "score" THEN ab.a = ab.b ELSE ab.a = HALF

drawnPairs(ps, ms, md, ad, view) ==
    {pr \in confirmedPairs(ps, ms, md, ad, view) :
        isDraw(md, getMatchAB(ms, askP1(ps, pr, view), askP2(ps, pr, view)))}

\* C7 as stated: in every state the UI reaches, wins add up to the number of
\* confirmed non-draw matches, losses add up to the same number, and draws
\* add up to an even number, twice the number of confirmed draw matches,
\* whichever way round a match is looked at.
C7_OutcomeTotals ==
    \A out \in rankedPlayers : \A view \in Views :
      LET conf == confirmedPairs(players, matches, mode, allowDraw, view)
          drawn == drawnPairs(players, matches, mode, allowDraw, view)
          draws == sumTo([i \in 1..Len(out) |-> out[i].draws], Len(out))
      IN  /\ sumTo([i \in 1..Len(out) |-> out[i].wins], Len(out))
               = Cardinality(conf \ drawn)
          /\ sumTo([i \in 1..Len(out) |-> out[i].losses], Len(out))
               = Cardinality(conf \ drawn)
          /\ draws % 2 = 0
          /\ draws = 2 * Cardinality(drawn)

swapRows(ps, i, j) ==
    [k \in 1..Len(ps) |-> IF k = i THEN ps[j] ELSE IF k = j THEN ps[i] ELSE ps[k]]

orderOf(out) == [k \in 1..Len(out) |-> out[k].id]

\* C8 as stated: swapping the roster places of two participants that tie on
\* every rule before the name leaves the order calculateStats returns as it
\* was.
C8_OrderIgnoresRoster ==
    LET t == tally(players, matches, mode, allowDraw)
        here == {orderOf(o) : o \in rankedPlayers}
    IN  \A i, j \in 1..Len(players) :
          (/\ i < j
           /\ preNameCompare(matches, mode, allowDraw, t[i], t[j]) = 0
           /\ preNameCompare(matches, mode, allowDraw, t[j], t[i]) = 0)
          => {orderOf(o) : o \in calculateStats(swapRows(players, i, j), matches,
                                               mode, allowDraw)} = here

\* C9 as stated: the comparator of calculateStats is antisymmetric and has no
\* three participants ranked in a cycle.
C9_ComparatorConsistent ==
    LET c == cmpTable(tally(players, matches, mode, allowDraw),
                      matches, mode, allowDraw)
        n == Len(players)
    IN  /\ \A i, j \in 1..n : c[i][j] = -c[j][i]
        /\ \A i, j, k \in 1..n : ~(c[i][j] < 0 /\ c[j][k] < 0 /\ c[k][i] < 0)

\* C10 as stated: isConfirmed is false without a result or with a null
\* score, false for a tie in score mode without draws, false for a 0.5 in
\* win/loss mode without draws, true otherwise, and the same in both
\* directions.
C10_ConfirmedTable ==
    \A X, Y \in LookupIds :
      LET ab == getMatchAB(matches, X, Y)
          expected ==
            IF ~ab.found \/ ab.a = NULL \/ ab.b = NULL THEN FALSE
            ELSE IF mode = "score" /\ ~allowDraw /\ ab.a = ab.b THEN FALSE
            ELSE IF mode = "win-loss" /\ ~allowDraw /\ ab.a = HALF THEN FALSE
            ELSE TRUE
      IN  /\ isConfirmed(matches, mode, allowDraw, X, Y) = expected
          /\ isConfirmed(matches, mode, allowDraw, X, Y)
               = isConfirmed(matches, mode, allowDraw, Y, X)

\* The result map with no entry for the pair, under either key.
withoutPair(ms, x, y) ==
    [k \in (DOMAIN ms) \ {Key(x, y), Key(y, x)} |-> ms[k]]

\* C11 as stated: a roster pair for which isConfirmed is false, whichever way
\* round it is asked, contributes nothing: calculateStats returns what it
\* returns when the pair has no entry in the result map.
C11_UnconfirmedContributesNothing ==
    \A view \in Views :
      \A pr \in ((1..Len(players)) \X (1..Len(players))) :
        (/\ pr[1] < pr[2]
         /\ ~isConfirmed(matches, mode, allowDraw,
                         askP1(players, pr, view), askP2(players, pr, view)))
        => calculateStats(players, matches, mode, allowDraw)
             = calculateStats(players,
                              withoutPair(matches, players[pr[1]].id, players[pr[2]].id),
                              mode, allowDraw)

\* C12 as stated: for every confirmed match the UI reaches, the points of the
\* two sides are a win and a loss or two draws, never two wins or two losses.
C12_OutcomesSymmetric ==
    \A x, y \in idsOf(players) :
      (x # y /\ isConfirmed(matches, mode, allowDraw, x, y))
      => LET ab == getMatchAB(matches, x, y)
             pA == calcPointsForP1(mode, allowDraw, ab.a, ab.b)
             pB == calcPointsForP1(mode, allowDraw, ab.b, ab.a)
         IN  \/ pA = POINTS_WIN /\ pB = POINTS_LOSS
             \/ pA = POINTS_LOSS /\ pB = POINTS_WIN
             \/ pA = POINTS_DRAW /\ pB = POINTS_DRAW

\* What the comparator returns when head-to-head is passed over.
nextRule(md, A, B) ==
    IF tieBreaks(md, A, B) # 0 THEN tieBreaks(md, A, B)
    ELSE localeCompare(A.name, B.name)

\* C13 as stated: of two participants level on points that have a confirmed
\* match against each other, the comparator puts the winner of that match
\* first; after a confirmed draw, or with no confirmed match, it returns what
\* the next rule gives.  The match is looked at either way round.
C13_HeadToHead ==
    LET t == tally(players, matches, mode, allowDraw)
        cmp(i, j) == rankCompare(matches, mode, allowDraw, t[i], t[j])
    IN  \A view \in Views :
          \A pr \in ((1..Len(players)) \X (1..Len(players))) :
            (pr[1] < pr[2] /\ t[pr[1]].points = t[pr[2]].points)
            => LET x == IF view = "first" THEN pr[1] ELSE pr[2]
                   y == IF view = "first" THEN pr[2] ELSE pr[1]
                   ab == getMatchAB(matches, players[x].id, players[y].id)
                   px == calcPointsForP1(mode, allowDraw, ab.a, ab.b)
                   py == calcPointsForP1(mode, allowDraw, ab.b, ab.a)
               IN  IF ~isConfirmed(matches, mode, allowDraw,
                                   players[x].id, players[y].id) \/ px = py
                   THEN /\ cmp(x, y) = nextRule(mode, t[x], t[y])
                        /\ cmp(y, x) = nextRule(mode, t[y], t[x])
                   ELSE IF px > py
                   THEN cmp(x, y) < 0 /\ cmp(y, x) > 0
                   ELSE cmp(y, x) < 0 /\ cmp(x, y) > 0

\* -1 when the first of two different numbers is the higher, 1 otherwise.
higherFirst(x, y) == IF x > y THEN -1 ELSE 1

scenarioABC ==
    /\ isLoaded
    /\ mode = "score" /\ allowDraw
    /\ players = ChainRoster
    /\ matches = MapOf(ChainKeys,
                       [k \in ChainKeys |-> IF k = Key(Uuid(1), Uuid(2))
                                            THEN Result(Num(3), Num(1))
                                            ELSE Result(Num(2), Num(2))])

rowOf(out, id) == out[CHOOSE k \in 1..Len(out) : out[k].id = id]

placeOf(out, id) == CHOOSE k \in 1..Len(out) : out[k].id = id

\* C15 as stated: in the scenario A has one win, B one loss and one draw, C
\* one draw, A is first, and B is placed before C by the name, every earlier
\* rule of the comparator being level.
C15_ScenarioByName ==
    scenarioABC =>
      \A out \in rankedPlayers :
        /\ rowOf(out, Uuid(1)).wins = 1
        /\ rowOf(out, Uuid(2)).losses = 1 /\ rowOf(out, Uuid(2)).draws = 1
        /\ rowOf(out, Uuid(3)).draws = 1
        /\ out[1].id = Uuid(1)
        /\ placeOf(out, Uuid(2)) < placeOf(out, Uuid(3))
        /\ preNameCompare(matches, mode, allowDraw,
                          rowOf(out, Uuid(2)), rowOf(out, Uuid(3))) = 0

\* C15: in the scenario A has one win, B one loss and one draw, C one draw;
\* calculateStats returns A, C, B: B and C are level on one point, their
\* match was a draw, and C's goal difference (0) is higher than B's (-2).
C15_ScenarioByGoalDiff ==
    scenarioABC =>
      \A out \in rankedPlayers :
        /\ rowOf(out, Uuid(1)).wins = 1 /\ rowOf(out, Uuid(1)).points = 3
        /\ rowOf(out, Uuid(2)).losses = 1 /\ rowOf(out, Uuid(2)).draws = 1
        /\ rowOf(out, Uuid(3)).draws = 1
        /\ rowOf(out, Uuid(2)).points = 1 /\ rowOf(out, Uuid(3)).points = 1
        /\ headToHeadCompare(matches, mode, allowDraw, Uuid(2), Uuid(3)) = 0
        /\ rowOf(out, Uuid(2)).goalDiff = 0 - Num(2)
        /\ rowOf(out, Uuid(3)).goalDiff = 0
        /\ [k \in 1..3 |-> out[k].id] = <<Uuid(1), Uuid(3), Uuid(2)>>

C15_Witness == scenarioABC /\ rankedPlayers # {}

\* C16: with a roster of 0 or 1 participants roundSchedule is the empty
\* sequence and matchOrderMap has no key; a single participant gets no bye
\* round.
C16_NoScheduleBelowTwo ==
    Len(players) < 2 =>
      /\ roundSchedule = <<>>
      /\ DOMAIN matchOrderMap = {}

\* A single participant, loaded or left after removals, and no round.
C16_Witness ==
    /\ isLoaded
    /\ Len(players) = 1
    /\ Len(roundSchedule) = 0

withPlaceholder(m) == m.p1.id = DUMMY_ID \/ m.p2.id = DUMMY_ID

\* C17: in every round, an entry with the placeholder has isBye = true, the
\* real participant in p1 and the placeholder in p2, and comes after every
\* real match of the round; an odd roster has exactly one such entry per
\* round, an even roster none.
C17_ByesLastRealFirst ==
    LET rs == roundSchedule
    IN  \A r \in 1..Len(rs) :
          LET ms == rs[r].matches
              byes == {k \in 1..Len(ms) : withPlaceholder(ms[k])}
          IN  /\ \A k \in byes :
                   /\ ms[k].isBye
                   /\ ms[k].p1.id \in idsOf(players)
                   /\ ms[k].p2.id = DUMMY_ID
                   /\ \A j \in 1..Len(ms) : ~withPlaceholder(ms[j]) => j < k
              /\ Cardinality(byes) = IF Len(players) % 2 = 1 THEN 1 ELSE 0

\* Three participants.  Round 1: the bye is generated first and listed last.
\* Round 2: the bye is generated placeholder first and listed real
\* participant first.
C17_Witness ==
    /\ isLoaded
    /\ Len(players) = 3
    /\ LET rotating == SubSeq(players, 2, 3) \o <<Player(DUMMY_ID, DUMMY_NAME)>>
           raw1 == roundPairs(players[1], rotating, 2)
           raw2 == roundPairs(players[1], rotate(rotating), 2)
           ms1 == roundSchedule[1].matches
           ms2 == roundSchedule[2].matches
       IN  /\ raw1[1][2].id = DUMMY_ID
           /\ ~ms1[1].isBye
           /\ ms1[2].isBye /\ ms1[2].p1 = players[1]
           /\ raw2[2][1].id = DUMMY_ID
           /\ ~ms2[1].isBye
           /\ ms2[2].isBye /\ ms2[2].p2.id = DUMMY_ID /\ ms2[2].p1 = raw2[2][2]

\* C18: every non-bye match of roundSchedule between X and Y with number k
\* has matchOrderMap[X-Y] = matchOrderMap[Y-X] = k; no key of the map holds
\* the placeholder's id; two keys with the same number are the same
\* unordered pair.
C18_OrderMap ==
    LET all == flatten(roundSchedule, 1)
        map == matchOrderMap
        ids == idsOf(players)
    IN  /\ \A k \in 1..Len(all) :
             ~all[k].isBye =>
               /\ Key(all[k].p1.id, all[k].p2.id) \in DOMAIN map
               /\ Key(all[k].p2.id, all[k].p1.id) \in DOMAIN map
               /\ map[Key(all[k].p1.id, all[k].p2.id)] = all[k].no
               /\ map[Key(all[k].p2.id, all[k].p1.id)] = all[k].no
        /\ \A key \in DOMAIN map :
             /\ \A n \in 1..Len(key) : <<key[n]>> # DUMMY_ID
             /\ \E x, y \in ids : x # y /\ key = Key(x, y)
        /\ \A x, y, u, v \in ids :
             (/\ Key(x, y) \in DOMAIN map /\ Key(u, v) \in DOMAIN map
              /\ map[Key(x, y)] = map[Key(u, v)])
             => {x, y} = {u, v}

\* Five participants: ten matches under twenty keys, and the third match
\* found under the key that names its second participant first.
C18_Witness ==
    /\ isLoaded
    /\ Len(players) = 5
    /\ Cardinality(DOMAIN matchOrderMap) = 20
    /\ LET m == roundSchedule[2].matches[1]
       IN  /\ m.no = 3
           /\ matchOrderMap[Key(m.p2.id, m.p1.id)] = 3

\* Inputs that are empty, not a number, or negative.
InvalidInputs == {v \in ScoreInputs : v.kind # "num" \/ v.n < 0}

\* The result map after the score field of a grid cell (row c[1], column
\* c[2]) receives a value: the row participant's own score or the opponent's.
afterScoreInput(c, isMyScore, value) ==
    updateMatchScore(matches, CellP1(players, c[1], c[2]), CellP2(players, c[1], c[2]),
                     isMyScore, value, CellReversed(c[1], c[2]))

\* C19: wherever the score grid is shown, updateMatchScore with an empty,
\* non-numeric or negative input leaves null as the score it was aimed at
\* and the other score as it was; right after it isConfirmed is false for
\* the pair in both directions and calculateStats returns what it returns
\* without the pair's entry, whatever the field held before.
C19_InvalidInputClears ==
    (isLoaded /\ phase = "match" /\ mode = "score") =>
      \A c \in Cells, isMyScore \in BOOLEAN, value \in InvalidInputs :
        LET row == players[c[1]].id
            col == players[c[2]].id
            was == getMatchAB(matches, row, col)
            after == afterScoreInput(c, isMyScore, value)
            now == getMatchAB(after, row, col)
        IN  /\ now.found
            /\ IF isMyScore THEN now.a = NULL /\ now.b = was.b
                            ELSE now.b = NULL /\ now.a = was.a
            /\ ~isConfirmed(after, mode, allowDraw, row, col)
            /\ ~isConfirmed(after, mode, allowDraw, col, row)
            /\ calculateStats(players, after, mode, allowDraw)
                 = calculateStats(players, withoutPair(after, row, col), mode, allowDraw)

\* A confirmed result that counts in the standings; clearing the row
\* participant's score from the mirrored cell (row below column) empties
\* that score only and takes the pair out of the standings.
C19_Witness ==
    /\ isLoaded /\ phase = "match" /\ mode = "score"
    /\ \E c \in Cells :
         LET row == players[c[1]].id
             col == players[c[2]].id
             was == getMatchAB(matches, row, col)
             after == afterScoreInput(c, TRUE, [kind |-> "empty", n |-> 0])
         IN  /\ c[1] > c[2]
             /\ isConfirmed(matches, mode, allowDraw, row, col)
             /\ was.a # was.b
             /\ after[Key(col, row)].scoreB = NULL
             /\ after[Key(col, row)].scoreA = was.b
             /\ calculateStats(players, after, mode, allowDraw)
                  # calculateStats(players, matches, mode, allowDraw)

\* Every id addPlayer can have generated.
GeneratedIds == {Uuid(k) : k \in 1..MaxIds}

\* C20: in every state reached from the empty state by addPlayer,
\* removePlayer and the two result handlers as the grid issues them, no two
\* participants have both of their keys X-Y and Y-X in the result map.
C20_OneKeyPerPair ==
    \A x, y \in GeneratedIds :
      x # y => ~(Key(x, y) \in DOMAIN matches /\ Key(y, x) \in DOMAIN matches)

\* A pair with its result stored, and the mirrored cell (row below column)
\* about to write: the handler is given the same key again.
C20_Witness ==
    /\ phase = "match"
    /\ Len(players) >= 2
    /\ Key(players[1].id, players[2].id) \in DOMAIN matches
    /\ matches[Key(players[1].id, players[2].id)].scoreA # NULL
    /\ matches[Key(players[1].id, players[2].id)].scoreB # NULL
    /\ CellReversed(2, 1)
    /\ Key(CellP1(players, 2, 1), CellP2(players, 2, 1))
         = Key(players[1].id, players[2].id)

(***************************************************************************)
(* Load and save (SpecStore, SpecLoad).                                    *)
(***************************************************************************)
\* C21: a step that leaves the load uncompleted leaves the storage as it
\* was, and every step that ends with the load completed ends with the
\* storage holding the current values of all seven fields.
C21_SavedOnceLoaded ==
    [][/\ (~isLoaded' => storage' = storage)
       /\ (isLoaded' => storage' = SavedData')]_vars

\* Every one of the seven fields changed in this session, from a first
\* start, and the storage holds them.
C21_Witness ==
    /\ isLoaded
    /\ nextId = 2
    /\ title = "Cup" /\ mode = "win-loss" /\ ~allowDraw /\ showOrder
    /\ Len(players) = 2
    /\ Key(Uuid(1), Uuid(2)) \in DOMAIN matches
    /\ phase = "match"
    /\ storage = SavedData

\* The right type and shape of each stored field.
rightShape(field, f) ==
    CASE field = "title" -> f.type = "string"
      [] field = "mode" -> f \in {Str("score"), Str("win-loss")}
      [] field = "allowDraw" -> f.type = "boolean"
      [] field = "showOrder" -> f.type = "boolean"
      [] field = "players" -> f.type = "array"
      [] field = "matches" -> f.type = "object"
      [] field = "phase" -> f \in {Str("settings"), Str("register"), Str("match")}

\* What the load is to leave in a field: the stored value, or the default.
loadedOr(field, default) ==
    IF rightShape(field, storage[field]) THEN storage[field].val ELSE default

\* C22: every step that completes the load ends with isLoaded true and, on
\* a stored object, with each of the seven fields holding its stored value
\* if that has the right type and shape and its default otherwise, whatever
\* the other fields hold.
C22_EachFieldValidated ==
    [][~isLoaded =>
         /\ isLoaded'
         /\ (storage.present /\ storage.parsed) =>
              /\ title' = loadedOr("title", DEFAULT_TITLE)
              /\ mode' = loadedOr("mode", "score")
              /\ allowDraw' = loadedOr("allowDraw", TRUE)
              /\ showOrder' = loadedOr("showOrder", FALSE)
              /\ players' = loadedOr("players", <<>>)
              /\ matches' = loadedOr("matches", EmptyMatches)
              /\ phase' = loadedOr("phase", "settings")]_vars

(***************************************************************************)
(* Roster (SpecRoster).                                                    *)
(***************************************************************************)
\* ps without its i-th row.
withoutRow(ps, i) == SubSeq(ps, 1, i - 1) \o SubSeq(ps, i + 1, Len(ps))

\* C23: the roster never has more than 10 participants, and every step of
\* addPlayer or removePlayer leaves it as it was, appends one participant
\* at the end (never to a roster of 10), or takes one participant out and
\* keeps the others in their order.
C23_RosterCapped ==
    [][/\ Len(players') <= MAX_PLAYERS
       /\ \/ players' = players
          \/ /\ Len(players) < MAX_PLAYERS
             /\ Len(players') = Len(players) + 1
             /\ SubSeq(players', 1, Len(players)) = players
             /\ players'[Len(players')].id = Uuid(nextId')
          \/ \E i \in 1..Len(players) : players' = withoutRow(players, i)]_vars

\* A full roster that has seen a removal and a later addition, with an id
\* left for the next addPlayer.
C23_Witness ==
    /\ Len(players) = MAX_PLAYERS
    /\ nextId > MAX_PLAYERS
    /\ nextId < MaxRosterIds
    /\ players[1].id # Uuid(1)
    /\ players[MAX_PLAYERS].id = Uuid(nextId)

(***************************************************************************)
(* Renders (SpecRender).                                                   *)
(***************************************************************************)
\* C24: after rankedPlayers, roundSchedule and matchOrderMap have been
\* computed, the roster array holds the same participants in the same
\* order, each with the same id and name, and the result map holds the same
\* entries, as before.
C24_RenderLeavesSnapshot ==
    isLoaded =>
      \A hp \in renderedHeaps(players, matches, mode, allowDraw) :
        /\ deref(hp, PlayersCell) = players
        /\ hp[MatchesCell] = matches

\* An odd roster with results: the sort has moved the first row away, the
\* placeholder has been pushed onto the copy, and the bye of the second
\* participant, generated placeholder first, has been swapped.
C24_Witness ==
    /\ isLoaded
    /\ Len(players) = 3
    /\ DOMAIN matches # {}
    /\ \E hp \in renderedHeaps(players, matches, mode, allowDraw) :
         /\ hp[Cell("stats", 0)][1] # Cell("stat", 1)
         /\ Len(hp[Cell("ps", 0)]) = 4
         /\ Len(hp[PlayersCell]) = 3
         /\ \E c \in DOMAIN hp :
              /\ c[1] = "match"
              /\ hp[c].isBye
              /\ hp[c].p1 = players[2]
              /\ hp[c].p2.id = DUMMY_ID

(***************************************************************************)
(* Removal and result entry (SpecGrid).                                    *)
(***************************************************************************)
\* The keys that name id on either side.
keysNaming(id) ==
    {Key(id, y) : y \in GeneratedIds} \cup {Key(y, id) : y \in GeneratedIds}

\* C25: a step that removes a participant with a generated id leaves no key
\* in the result map that names that id on either side, and keeps every
\* other entry with its scores.
C25_RemoveCleansResults ==
    [][\A id \in GeneratedIds :
         (id \in idsOf(players) /\ id \notin idsOf(players')) =>
           /\ keysNaming(id) \cap DOMAIN matches' = {}
           /\ \A k \in (DOMAIN matches) \ keysNaming(id) :
                k \in DOMAIN matches' /\ matches'[k] = matches[k]]_vars

\* The inputs updateMatchScore does not turn into null: the numbers from 0
\* on, whole or not.
ValidInputs == {v \in ScoreInputs : v.kind = "num" /\ v.n >= 0}

\* The result map after a button of cell c has been pressed.
afterWinLossInput(c, b) ==
    updateMatchWinLoss(matches, CellP1(players, c[1], c[2]), CellP2(players, c[1], c[2]),
                       b[1], b[2], CellReversed(c[1], c[2]))

\* What the row participant of cell c reads back as its own (isMyScore) or
\* its opponent's score from the result map ms.
readBack(ms, c, isMyScore) ==
    LET ab == getMatchAB(ms, players[c[1]].id, players[c[2]].id)
    IN  IF isMyScore THEN ab.a ELSE ab.b

\* Both lookups after a win/loss button of cell c: own value first for the
\* row participant, opponent value first for the column participant.
winLossReadsBack(c) ==
    \A b \in WinLossButtons :
      LET ms == afterWinLossInput(c, b)
          rc == getMatchAB(ms, players[c[1]].id, players[c[2]].id)
          cr == getMatchAB(ms, players[c[2]].id, players[c[1]].id)
      IN  /\ rc.found /\ rc.a = b[1] /\ rc.b = b[2]
          /\ cr.found /\ cr.a = b[2] /\ cr.b = b[1]

\* C26, as stated: from any cell of the grid, a win/loss button reads back
\* as (own, opponent) for the row participant and (opponent, own) for the
\* column participant, and a valid value v typed into the own (opponent)
\* score field reads back as v in a (b) of the row participant's lookup.
C26_ReadsBackAsTyped ==
    (isLoaded /\ phase = "match") =>
      \A c \in Cells :
        /\ winLossReadsBack(c)
        /\ \A isMyScore \in BOOLEAN, value \in ValidInputs :
             readBack(afterScoreInput(c, isMyScore, value), c, isMyScore) = value.n

\* C26, amended: the same, with the typed value read back rounded down to a
\* whole number.
C26_ReadsBackFloored ==
    (isLoaded /\ phase = "match") =>
      \A c \in Cells :
        /\ winLossReadsBack(c)
        /\ \A isMyScore \in BOOLEAN, value \in ValidInputs :
             readBack(afterScoreInput(c, isMyScore, value), c, isMyScore)
               = Num(value.n \div 2)

\* The pair has a result; the mirrored cell (row below column) gets 1.5
\* typed into its own field and a win pressed, and the row participant
\* reads back 1 and the win.
C26_Witness ==
    /\ isLoaded /\ phase = "match"
    /\ Len(players) >= 2
    /\ Key(players[1].id, players[2].id) \in DOMAIN matches
    /\ matches[Key(players[1].id, players[2].id)].scoreA # NULL
    /\ matches[Key(players[1].id, players[2].id)].scoreB # NULL
    /\ CellReversed(2, 1)
    /\ [kind |-> "num", n |-> 3] \in ValidInputs
    /\ readBack(afterScoreInput(<<2, 1>>, TRUE, [kind |-> "num", n |-> 3]), <<2, 1>>, TRUE) = ONE
    /\ afterScoreInput(<<2, 1>>, TRUE, [kind |-> "num", n |-> 3])
         [Key(players[1].id, players[2].id)].scoreB = ONE
    /\ afterWinLossInput(<<2, 1>>, <<ONE, 0>>)[Key(players[1].id, players[2].id)]
         = Result(0, ONE)

(***************************************************************************)
(* Standings and the storage direction (SpecRender).                       *)
(***************************************************************************)
\* The result map with the entry of key x-y moved to key y-x, its two
\* scores exchanged.
storedReversed(ms, x, y) ==
    Put(withoutPair(ms, x, y), Key(y, x), Result(ms[Key(x, y)].scoreB, ms[Key(x, y)].scoreA))

\* C27: for a pair stored under one key, calculateStats returns the same
\* rows in the same order when the pair is stored under the other key with
\* the two scores exchanged, whatever the roster, mode and allowDraw.
C27_DirectionIrrelevant ==
    isLoaded =>
      \A x, y \in LookupIds :
        (x # y /\ Key(x, y) \in DOMAIN matches /\ Key(y, x) \notin DOMAIN matches) =>
          calculateStats(players, storedReversed(matches, x, y), mode, allowDraw)
            = calculateStats(players, matches, mode, allowDraw)

\* Three participants and a win of the second over the first, stored under
\* the key of the first: the winner has its win, and has it as well when
\* the result is stored under the key of the second.
C27_Witness ==
    /\ isLoaded
    /\ Len(players) = 3
    /\ Key(players[1].id, players[2].id) \in DOMAIN matches
    /\ Key(players[2].id, players[1].id) \notin DOMAIN matches
    /\ matches[Key(players[1].id, players[2].id)] = Result(0, ONE)
    /\ \A out \in calculateStats(players, matches, mode, allowDraw) :
         \E i \in 1..3 : out[i].id = players[2].id /\ out[i].wins >= 1
    /\ storedReversed(matches, players[1].id, players[2].id)
         [Key(players[2].id, players[1].id)] = Result(ONE, 0)
    /\ calculateStats(players, storedReversed(matches, players[1].id, players[2].id),
                      mode, allowDraw)
         = calculateStats(players, matches, mode, allowDraw)

(***************************************************************************)
(* Totals of a row (Spec).                                                 *)
(***************************************************************************)
\* C28: in every state the UI reaches, every row calculateStats returns has
\* points = 3 * wins + 1 * draws and played = wins + draws + losses.
C28_PointsFromOutcomes ==
    isLoaded =>
      \A out \in rankedPlayers :
        \A i \in 1..Len(out) :
          /\ out[i].points = POINTS_WIN * out[i].wins + POINTS_DRAW * out[i].draws
          /\ out[i].played = out[i].wins + out[i].draws + out[i].losses

(***************************************************************************)
(* Phases (SpecGrid).                                                      *)
(***************************************************************************)
\* C29: from a first start, phase = "match" implies a roster of at least
\* two; "match" is entered only from "register" with at least two
\* participants, and the roster shrinks only in "register".
C29_MatchNeedsTwo ==
    /\ [](phase = "match" => Len(players) >= 2)
    /\ [][/\ (phase' = "match" /\ phase # "match") =>
               (phase = "register" /\ Len(players) >= 2)
          /\ Len(players') < Len(players) => phase = "register"]_vars

\* The grid is open on a roster of exactly two: one removal away from a
\* roster the grid could not be opened on.
C29_Witness ==
    /\ isLoaded
    /\ phase = "match"
    /\ Len(players) = 2
    /\ matches = EmptyMatches

(***************************************************************************)
(* The frame of updateMatchScore (SpecScore).                              *)
(***************************************************************************)
\* C30: updateMatchScore from any cell, for either field and any input,
\* returns a result map that holds the keys of the old one and the key of
\* the cell, every other entry as it was, and under the key of the cell the
\* old entry (or a blank one) with the targeted score replaced and the
\* other score as it was; the old result map object still holds what it
\* held; and the step leaves the roster, mode and allowDraw unchanged.
C30_ScoreWritesOneField ==
    /\ [](isLoaded /\ phase = "match" =>
            \A c \in Cells, isMyScore \in BOOLEAN, value \in ScoreInputs :
              LET key == Key(CellP1(players, c[1], c[2]), CellP2(players, c[1], c[2]))
                  old == IF key \in DOMAIN matches THEN matches[key]
                                                  ELSE Result(NULL, NULL)
                  targetA == (isMyScore = ~CellReversed(c[1], c[2]))
                  new == afterScoreInput(c, isMyScore, value)
                  onHeap == scoreOnHeap(matchesHeap(matches), key, targetA,
                                        parseScore(value))
              IN  /\ DOMAIN new = (DOMAIN matches) \cup {key}
                  /\ \A k \in (DOMAIN matches) \ {key} : new[k] = matches[k]
                  /\ new[key] = IF targetA
                                THEN Result(parseScore(value), old.scoreB)
                                ELSE Result(old.scoreA, parseScore(value))
                  /\ mapIn(onHeap.cells, onHeap.ref) = new
                  /\ mapIn(onHeap.cells, PrevCell) = matches)
    /\ [][isLoaded =>
            /\ players' = players /\ mode' = mode /\ allowDraw' = allowDraw
            /\ \E k \in DOMAIN matches' :
                 \A j \in (DOMAIN matches) \ {k} :
                   j \in DOMAIN matches' /\ matches'[j] = matches[j]]_vars

\* Two pairs with results, a third without: a score typed into the mirrored
\* cell of the first pair changes that pair's second score alone, and one
\* typed into the cell of the third pair creates its entry with the other
\* score null.
C30_Witness ==
    /\ isLoaded /\ phase = "match"
    /\ Len(players) = 3
    /\ DOMAIN matches = {Key(players[1].id, players[2].id), Key(players[2].id, players[3].id)}
    /\ matches[Key(players[1].id, players[2].id)] = Result(0, 0)
    /\ matches[Key(players[2].id, players[3].id)] = Result(ONE, ONE)
    /\ afterScoreInput(<<2, 1>>, TRUE, [kind |-> "num", n |-> ONE])
         = Put(matches, Key(players[1].id, players[2].id), Result(0, ONE))
    /\ afterScoreInput(<<1, 3>>, FALSE, [kind |-> "num", n |-> ONE])
         = Put(matches, Key(players[1].id, players[3].id), Result(NULL, ONE))

====
